---- MODULE Spec2Model ----
(***************************************************************************)
(* Verification model of gsStructuralAnalysis:                             *)
(*   - the buckling eigenvalue solver (src/gsBucklingSolver.hpp), on       *)
(*     diagonal matrices with exact rational arithmetic;                   *)
(*   - the arc-length drivers (src/examples/benchmark_*.cpp).              *)
(*                                                                         *)
(* A matrix is represented by its diagonal (a sequence of integers), a     *)
(* real number by a reduced fraction <<num, den>> with den > 0, and a      *)
(* non-finite floating-point value (inf, NaN) by <<0, 0>>.                 *)
(***************************************************************************)
EXTENDS Integers, Sequences, FiniteSets, TLC

(***************************************************************************)
(* Bounds of the model.                                                    *)
(***************************************************************************)
MaxDim == 4
MaxNumber == 2
FxScale == 1024
MaxSteps == 2
MaxAttempts == 5
LiveAttempts == 32
RefDim == 2
SeqDim == 2
MaxX == 2
MaxTime == 2

(***************************************************************************)
(* Program constants.                                                      *)
(***************************************************************************)
kmax == 100
SpectraMaxIt == 1000
NcvFacDefault == 3
SortRuleDefault == 4
SolverDefault == 0

(***************************************************************************)
(* Rational arithmetic.                                                    *)
(***************************************************************************)
Abs(x) == IF x < 0 THEN -x ELSE x

Sign(x) == IF x < 0 THEN -1 ELSE IF x > 0 THEN 1 ELSE 0

RECURSIVE GCD(_, _)
GCD(a, b) == IF b = 0 THEN a ELSE GCD(b, a % b)

NotFinite == <<0, 0>>

IsFinite(r) == r[2] # 0

Rat(n, d) ==
    IF d = 0 THEN NotFinite
    ELSE LET g == GCD(Abs(n), Abs(d))
             s == Sign(d)
         IN  <<(s * n) \div g, (s * d) \div g>>

RInt(n) == <<n, 1>>

RAdd(x, y) ==
    IF ~IsFinite(x) \/ ~IsFinite(y) THEN NotFinite
    ELSE Rat(x[1] * y[2] + y[1] * x[2], x[2] * y[2])

RSub(x, y) ==
    IF ~IsFinite(x) \/ ~IsFinite(y) THEN NotFinite
    ELSE Rat(x[1] * y[2] - y[1] * x[2], x[2] * y[2])

RMul(x, y) ==
    IF ~IsFinite(x) \/ ~IsFinite(y) THEN NotFinite
    ELSE Rat(x[1] * y[1], x[2] * y[2])

RDiv(x, y) ==
    IF ~IsFinite(x) \/ ~IsFinite(y) THEN NotFinite
    ELSE Rat(x[1] * y[2], x[2] * y[1])

RAbs(x) == <<Abs(x[1]), x[2]>>

RLeq(x, y) == x[1] * y[2] <= y[1] * x[2]

RLess(x, y) == x[1] * y[2] < y[1] * x[2]

RIsZero(x) == IsFinite(x) /\ x[1] = 0

(* integer square root, by Newton's iteration from a guess above the root *)
RECURSIVE ISqrtNewton(_, _)
ISqrtNewton(x, r) ==
    LET y == (r + (x \div r)) \div 2
    IN  IF y >= r THEN r ELSE ISqrtNewton(x, y)

ISqrt(x) ==
    IF x < 2 THEN (IF x < 0 THEN 0 ELSE x)
    ELSE ISqrtNewton(x, IF x < 256 THEN 16
                        ELSE IF x < 65536 THEN 256
                        ELSE IF x < 16777216 THEN 4096 ELSE 46341)

IsSquare(x) == x >= 0 /\ ISqrt(x) * ISqrt(x) = x

(***************************************************************************)
(* Sequences.                                                              *)
(***************************************************************************)
Range(s) == {s[i] : i \in 1..Len(s)}

InjSeqs(n, len) ==
    {s \in [1..len -> 1..n] : \A i, j \in 1..len : i # j => s[i] # s[j]}

(* the sequence with the entries of f, built entry by entry *)
RECURSIVE Prefix(_, _)
Prefix(f, n) == IF n = 0 THEN <<>> ELSE Append(Prefix(f, n - 1), f[n])

Vec(f) == Prefix(f, Len(f))

RECURSIVE SumSeq(_)
SumSeq(s) == IF Len(s) = 0 THEN 0 ELSE s[1] + SumSeq(Tail(s))

RECURSIVE RSumSeq(_)
RSumSeq(s) == IF Len(s) = 0 THEN RInt(0) ELSE RAdd(s[1], RSumSeq(Tail(s)))


(***************************************************************************)
(* State of the eigenvalue solver (gsBucklingSolver / gsEigenProblemBase). *)
(*   m_linear, m_nonlinear : diagonals of K_L and K_NL                     *)
(*   m_options             : the option list                               *)
(*   m_values, m_vectors   : the stored eigenpairs; m_vectors is the       *)
(*                           sequence of columns                           *)
(*   ndebug                : TRUE when the build defines NDEBUG, so that   *)
(*                           GISMO_ASSERT expands to nothing               *)
(*   call                  : the last call made on the solver, with the    *)
(*                           arguments it handed to the Spectra solver     *)
(***************************************************************************)
VARIABLES m_linear, m_nonlinear, m_options, m_values, m_vectors, ndebug, call

solverVars == <<m_linear, m_nonlinear, m_options, m_values, m_vectors, ndebug, call>>

(***************************************************************************)
(* The members initializeMatrix() works with.                              *)
(*   m_rhs, m_scaling : the reference load and its scaling                 *)
(*   m_nonlinearFun   : the callback that assembles K_NL at a solution,    *)
(*                      named by the number of the callback (see           *)
(*                      NonlinearFun)                                      *)
(*   m_solver         : the matrix the linear solver holds factorized      *)
(*   m_solVec         : the solution of the reference problem              *)
(***************************************************************************)
VARIABLES m_rhs, m_scaling, m_nonlinearFun, m_solver, m_solVec

refVars == <<m_rhs, m_scaling, m_nonlinearFun, m_solver, m_solVec>>

(* Spectra::SortRule *)
LargestMagn == 0
LargestAlge == 3
SmallestMagn == 4
SmallestAlge == 7

(* the diagonal entries (K_L[i], (K_NL - K_L)[i]) the matrices are drawn from *)
PairTypes == << <<1, 1>>, <<1, 4>>, <<-2, 1>>, <<-1, 1>>, <<-2, 4>> >>

ShiftVals == { <<0, 1>>, <<-1, 2>> }

Dim == Len(m_linear)

(* m_nonlinear - m_linear *)
Geometric == [i \in 1..Dim |-> m_nonlinear[i] - m_linear[i]]

defaultOptions ==
    [verbose |-> FALSE, solver |-> SolverDefault, selectionRule |-> SortRuleDefault,
     sortRule |-> SortRuleDefault, ncvFac |-> NcvFacDefault]

NoCall ==
    [op |-> "none", shift |-> NotFinite, mode |-> "none", nev |-> 0, ncv |-> 0,
     selection |-> -1, sorting |-> -1, maxit |-> 0, tol |-> NotFinite,
     info |-> "none", returned |-> <<>>, threw |-> "no", iters |-> 0, met |-> FALSE,
     index |-> -1]

(***************************************************************************)
(* Eigen::GeneralizedSelfAdjointEigenSolver on diagonal (A, B), B positive *)
(* definite: all eigenvalues A[i]/B[i] in increasing order, the vectors    *)
(* B-normalised.  Equal eigenvalues may come in either order.              *)
(***************************************************************************)
UnitColumn(n, i, scale) == [j \in 1..n |-> IF j = i THEN scale ELSE RInt(0)]

BNormal(B, i) == Rat(B[i][2], ISqrt(B[i][1] * B[i][2]))

GenEigenvalues(A, B) == [i \in 1..Len(A) |-> RDiv(A[i], B[i])]

(* the sequences listing the indices of S in increasing order of key *)
RECURSIVE SortedOrders(_, _)
SortedOrders(S, key) ==
    IF S = {} THEN {<<>>}
    ELSE UNION {{<<m>> \o rest : rest \in SortedOrders(S \ {m}, key)} :
                  m \in {i \in S : \A j \in S : RLeq(key[i], key[j])}}

EigenSolverResults(A, B) ==
    LET n == Len(A)
        lam == GenEigenvalues(A, B)
    IN  {[values |-> [k \in 1..n |-> lam[p[k]]],
          vectors |-> [k \in 1..n |-> UnitColumn(n, p[k], BNormal(B, p[k]))]] :
            p \in SortedOrders(1..n, lam)}

(* faulty variant: the shift enters the left-hand side with the wrong sign *)
ShiftedLinearPlus(shift) ==
    [i \in 1..Dim |-> RAdd(RInt(m_linear[i]), RMul(shift, RInt(Geometric[i])))]

(* m_linear - shift*(m_nonlinear - m_linear) *)
ShiftedLinear(shift) ==
    [i \in 1..Dim |-> RSub(RInt(m_linear[i]), RMul(shift, RInt(Geometric[i])))]

GeometricMatrix == [i \in 1..Dim |-> RInt(Geometric[i])]

LinearMatrix == [i \in 1..Dim |-> RInt(m_linear[i])]

(* faulty variant: the eigenvalues are not shifted back *)
DenseNoShiftBack(vals, shift) == vals

(* m_values.array() += shift, in compute(shift) *)
DenseShiftBack(vals, shift) == [k \in 1..Len(vals) |-> RAdd(vals[k], shift)]

(* faulty variant: the eigenvectors of the earlier call are kept *)
ComputeValuesOnly(shift) ==
    \E r \in EigenSolverResults(ShiftedLinear(shift), GeometricMatrix) :
        /\ m_values' = DenseShiftBack(r.values, shift)
        /\ call' = [NoCall EXCEPT !.op = "compute", !.shift = shift]
        /\ UNCHANGED <<m_linear, m_nonlinear, m_options, m_vectors, ndebug>>

(* gsBucklingSolver::compute(T shift) *)
Compute(shift) ==
    /\ \E r \in EigenSolverResults(ShiftedLinear(shift), GeometricMatrix) :
         /\ m_values' = DenseShiftBack(r.values, shift)
         /\ m_vectors' = r.vectors
    /\ call' = [NoCall EXCEPT !.op = "compute", !.shift = shift]
    /\ UNCHANGED <<m_linear, m_nonlinear, m_options, ndebug>>

(***************************************************************************)
(* The Spectra solvers behind gsSpectraGenSymSolver and                    *)
(* gsSpectraGenSymShiftSolver, on diagonal matrices.                       *)
(***************************************************************************)
(* the constructors reject nev outside 1..n-1 and ncv outside nev+1..n *)
SpectraArgsOk(n, nev, ncv) == nev >= 1 /\ nev <= n - 1 /\ ncv > nev /\ ncv <= n

(* a key that increases along the order a Spectra::SortRule asks for *)
RuleKey(rule, x) ==
    IF rule = SmallestMagn THEN RAbs(x)
    ELSE IF rule = LargestMagn THEN RSub(RInt(0), RAbs(x))
    ELSE IF rule = LargestAlge THEN RSub(RInt(0), x)
    ELSE x

(* the index sequences a solver may return: nev indices that come first  *)
(* under the selection key, listed in increasing order of the sort key   *)
SpectraPicks(n, nev, selKey, sortKey) ==
    UNION {SortedOrders(T, sortKey) :
             T \in {U \in SUBSET (1..n) :
                      /\ Cardinality(U) = nev
                      /\ \A i \in U, j \in (1..n) \ U : RLeq(selKey[i], selKey[j])}}

(* compute() converges (all nev pairs) or stops at the iteration cap with *)
(* only the first nconv < nev pairs converged                             *)
SpectraOutcomes(n, nev, lam, scale, selKey, sortKey) ==
    LET Out(s, info, nconv) ==
            [threw |-> "no", info |-> info,
             values |-> [k \in 1..nconv |-> lam[s[k]]],
             vectors |-> [k \in 1..nconv |-> UnitColumn(n, s[k], scale[s[k]])]]
        picks == SpectraPicks(n, nev, selKey, sortKey)
    IN  {Out(s, "Successful", nev) : s \in picks}
        \cup {Out(pc[1], "NotConverging", pc[2]) : pc \in picks \X (0..(nev - 1))}

SpectraRejects ==
    {[threw |-> "invalid_argument", info |-> "none", values |-> <<>>, vectors |-> <<>>]}

SpectraNumericalIssue ==
    {[threw |-> "no", info |-> "NumericalIssue", values |-> <<>>, vectors |-> <<>>]}

(* gsSpectraGenSymSolver<.., Cholesky | RegularInverse>(A, B, nev, ncv),     *)
(* init(), compute(selection, maxit, tol, sorting): eigenvalues of A x =   *)
(* lambda B x, B positive definite                                         *)
GenSymSolver(A, B, nev, ncv, selection, sorting) ==
    LET n == Len(A)
        lam == GenEigenvalues(A, B)
    IN  IF ~SpectraArgsOk(n, nev, ncv) THEN SpectraRejects
        ELSE SpectraOutcomes(n, nev, lam, [i \in 1..n |-> BNormal(B, i)],
                             [i \in 1..n |-> RuleKey(selection, lam[i])],
                             [i \in 1..n |-> RuleKey(sorting, lam[i])])

(* the spectral transformation of each mode: the solver iterates on nu and *)
(* selects by it; the eigenvalues reported are those of A x = lambda B x   *)
Transformed(mode, lambda, sigma) ==
    IF mode = "ShiftInvert" THEN RDiv(RInt(1), RSub(lambda, sigma))
    ELSE IF mode = "Buckling" THEN RDiv(lambda, RSub(lambda, sigma))
    ELSE RDiv(RAdd(lambda, sigma), RSub(lambda, sigma))

(* gsSpectraGenSymShiftSolver<.., ShiftInvert | Buckling | Cayley>(A, B,    *)
(* nev, ncv, sigma): A - sigma B must be invertible; Buckling mode needs A *)
(* positive definite and sigma nonzero                                     *)
GenSymShiftSolver(mode, A, B, nev, ncv, sigma, selection, sorting) ==
    LET n == Len(A)
        lam == GenEigenvalues(A, B)
        nu == [i \in 1..n |-> Transformed(mode, lam[i], sigma)]
    IN  IF ~SpectraArgsOk(n, nev, ncv) THEN SpectraRejects
        ELSE IF \E i \in 1..n : RIsZero(RSub(A[i], RMul(sigma, B[i]))) THEN SpectraRejects
        ELSE IF mode = "Buckling" /\ (RIsZero(sigma) \/ \E i \in 1..n : A[i][1] <= 0)
             THEN SpectraNumericalIssue
        ELSE SpectraOutcomes(n, nev, lam,
                             [i \in 1..n |-> IF mode = "Buckling" THEN BNormal(A, i)
                                                                   ELSE BNormal(B, i)],
                             [i \in 1..n |-> RuleKey(selection, nu[i])],
                             [i \in 1..n |-> RuleKey(sorting, lam[i])])

(***************************************************************************)
(* computeSparse.                                                          *)
(***************************************************************************)
(* the subspace size handed to the Spectra solver *)
Ncv(number) == 2 * number

(* GISMO_ASSERT(solver.info()==Spectra::CompInfo::Successful, ..): throws in *)
(* a debug build, expands to nothing under NDEBUG                          *)
AssertFails(info) == ~ndebug /\ info # "Successful"

SparseCall(mode, shift, number, r) ==
    [NoCall EXCEPT !.op = "computeSparse", !.shift = shift, !.mode = mode, !.nev = number,
                   !.ncv = Ncv(number), !.selection = SmallestMagn,
                   !.sorting = SmallestMagn, !.maxit = SpectraMaxIt,
                   !.tol = <<1, 1000000>>, !.info = r.info, !.returned = r.values,
                   !.threw = IF r.threw # "no" THEN r.threw
                             ELSE IF AssertFails(r.info) THEN "assert" ELSE "no"]

(* faulty variant: the eigenvalues are not shifted back *)
SparseNoShiftBack(vals, shift) == vals

(* m_values.array() += shift, in computeSparse_impl (Cholesky, RegularInverse) *)
SparseShiftBack(vals, shift) == [k \in 1..Len(vals) |-> RAdd(vals[k], shift)]

Reverse(q) == [k \in 1..Len(q) |-> q[Len(q) + 1 - k]]

(* faulty variant: values and columns are stored in reverse order *)
SparseStoreReversed(mode, shift, number, r, vals) ==
    /\ call' = SparseCall(mode, shift, number, r)
    /\ IF r.threw # "no" \/ AssertFails(r.info)
       THEN UNCHANGED <<m_values, m_vectors>>
       ELSE /\ m_values' = Reverse(vals)
            /\ m_vectors' = Reverse(r.vectors)

(* what follows solver.compute(): the assertion, then the two assignments *)
SparseStore(mode, shift, number, r, vals) ==
    /\ call' = SparseCall(mode, shift, number, r)
    /\ IF r.threw # "no" \/ AssertFails(r.info)
       THEN UNCHANGED <<m_values, m_vectors>>
       ELSE /\ m_values' = vals
            /\ m_vectors' = r.vectors

(* computeSparse_impl for Cholesky and RegularInverse *)
computeSparse_impl_Cholesky(mode, shift, number) ==
    \E r \in GenSymSolver(ShiftedLinear(shift), GeometricMatrix, number, Ncv(number),
                          SmallestMagn, SmallestMagn) :
        SparseStore(mode, shift, number, r, SparseShiftBack(r.values, shift))

(* faulty variant: the shift solver's values are shifted once more *)
computeSparse_impl_ShiftAdded(mode, shift, number) ==
    \E r \in GenSymShiftSolver(mode, LinearMatrix, GeometricMatrix, number, Ncv(number),
                               shift, SmallestMagn, SmallestMagn) :
        SparseStore(mode, shift, number, r, SparseShiftBack(r.values, shift))

(* computeSparse_impl for ShiftInvert, Buckling and Cayley *)
computeSparse_impl_Shift(mode, shift, number) ==
    \E r \in GenSymShiftSolver(mode, LinearMatrix, GeometricMatrix, number, Ncv(number),
                               shift, SmallestMagn, SmallestMagn) :
        SparseStore(mode, shift, number, r, r.values)

(* faulty variant: a value no branch tests for runs the default mode *)
computeSparse_DefaultBranch(shift, number) ==
    computeSparse_impl_Cholesky("Cholesky", shift, number)

(* the if / else-if chain of computeSparse has no final else: with option  *)
(* solver outside 0..4 the function returns without having done anything   *)
computeSparse_NoBranch(shift, number) ==
    /\ call' = [NoCall EXCEPT !.op = "computeSparse", !.shift = shift, !.nev = number]
    /\ UNCHANGED <<m_values, m_vectors>>

(* faulty variant: options 1 and 2 run each other's mode *)
ComputeSparseSwapped(shift, number) ==
    /\ IF m_options.solver = 0 THEN computeSparse_impl_Cholesky("Cholesky", shift, number)
       ELSE IF m_options.solver = 2
            THEN computeSparse_impl_Cholesky("RegularInverse", shift, number)
       ELSE IF m_options.solver = 1 THEN computeSparse_impl_Shift("ShiftInvert", shift, number)
       ELSE IF m_options.solver = 3 THEN computeSparse_impl_Shift("Buckling", shift, number)
       ELSE IF m_options.solver = 4 THEN computeSparse_impl_Shift("Cayley", shift, number)
       ELSE computeSparse_NoBranch(shift, number)
    /\ UNCHANGED <<m_linear, m_nonlinear, m_options, ndebug>>

(* gsEigenProblemBase::computeSparse(T shift, index_t number) *)
ComputeSparse(shift, number) ==
    /\ IF m_options.solver = 0 THEN computeSparse_impl_Cholesky("Cholesky", shift, number)
       ELSE IF m_options.solver = 1
            THEN computeSparse_impl_Cholesky("RegularInverse", shift, number)
       ELSE IF m_options.solver = 2 THEN computeSparse_impl_Shift("ShiftInvert", shift, number)
       ELSE IF m_options.solver = 3 THEN computeSparse_impl_Shift("Buckling", shift, number)
       ELSE IF m_options.solver = 4 THEN computeSparse_impl_Shift("Cayley", shift, number)
       ELSE computeSparse_NoBranch(shift, number)
    /\ UNCHANGED <<m_linear, m_nonlinear, m_options, ndebug>>

(***************************************************************************)
(* computePower.  The iterates are floating-point vectors; the model keeps *)
(* them in fixed point, x standing for x / FxScale, rounding towards zero. *)
(***************************************************************************)
PowerTol == <<1, 100000>>

FxDiv(a, b) == Sign(a) * Sign(b) * (Abs(a) \div Abs(b))

(* faulty variant: the inverse is taken of the other factor *)
PowerMatrixInverted == [i \in 1..Dim |-> Rat(m_linear[i], Geometric[i])]

(* m_linear.toDense().inverse() * (m_nonlinear.toDense() - m_linear.toDense()) *)
PowerMatrix == [i \in 1..Dim |-> Rat(Geometric[i], m_linear[i])]

(* D*v *)
MatVec(D, v) == Vec([i \in 1..Len(v) |-> FxDiv(v[i] * D[i][1], D[i][2])])

SquaredNorm(v) == SumSeq([i \in 1..Len(v) |-> v[i] * v[i]])

(* v.normalize(): Eigen leaves a zero vector as it is *)
Normalize(v) ==
    LET z == SquaredNorm(v)
    IN  IF z > 0 THEN Vec([i \in 1..Len(v) |-> FxDiv(v[i] * FxScale, ISqrt(z))]) ELSE v

(* (v-v_old).norm() *)
IterateError(v, v_old) == ISqrt(SquaredNorm([i \in 1..Len(v) |-> v[i] - v_old[i]]))

(* error < tol *)
BelowTol(error) == error * PowerTol[2] < PowerTol[1] * FxScale

(* one pass through the body of the loop for (k=0; k!=kmax; k++); once   *)
(* the loop has been left by the break, nothing more happens.  iters     *)
(* counts the products D*v                                                *)
LoopBody(D, st) ==
    IF st.met THEN st
    ELSE LET w == Normalize(MatVec(D, st.v))
         IN  IF BelowTol(IterateError(w, st.v_old))
             THEN [v |-> w, v_old |-> st.v_old, iters |-> st.iters + 1, met |-> TRUE]
             ELSE [v |-> w, v_old |-> w, iters |-> st.iters + 1, met |-> FALSE]

RECURSIVE Passes(_, _, _)
Passes(D, st, n) ==
    IF n = 0 THEN st
    ELSE IF n = 1 THEN LoopBody(D, st)
    ELSE LET half == Passes(D, st, n \div 2)
         IN  IF half.met THEN half ELSE Passes(D, half, n - (n \div 2))

(* faulty variant: the loop makes one pass too many *)
PowerLoopLong(D) ==
    Passes(D, [v |-> [i \in 1..Len(D) |-> FxScale], v_old |-> [i \in 1..Len(D) |-> 0],
               iters |-> 0, met |-> FALSE], kmax + 1)

(* the whole loop, from v = ones and v_old = zero *)
PowerLoop(D) ==
    Passes(D, [v |-> [i \in 1..Len(D) |-> FxScale], v_old |-> [i \in 1..Len(D) |-> 0],
               iters |-> 0, met |-> FALSE], kmax)

(* faulty variant: the Rayleigh quotient itself *)
Rayleigh(D, v) ==
    RDiv(RSumSeq([i \in 1..Len(v) |-> RMul(RInt(v[i] * v[i]), D[i])]),
         RInt(SquaredNorm(v)))

(* (v.transpose() * v) / (v.transpose() * D * v) *)
RayleighInverse(D, v) ==
    RDiv(RInt(SquaredNorm(v)),
         RSumSeq([i \in 1..Len(v) |-> RMul(RInt(v[i] * v[i]), D[i])]))

(* gsBucklingSolver::computePower() *)
ComputePower ==
    \E D \in {PowerMatrix} : \E r \in {PowerLoop(D)} :
        /\ m_vectors' = << [i \in 1..Dim |-> Rat(r.v[i], FxScale)] >>
        /\ m_values' = << RayleighInverse(D, r.v) >>
        /\ call' = [NoCall EXCEPT !.op = "computePower", !.iters = r.iters, !.met = r.met]
        /\ UNCHANGED <<m_linear, m_nonlinear, m_options, ndebug>>

(***************************************************************************)
(* The arc-length drivers (benchmark_Balloon, benchmark_Wrinkling_DWR,     *)
(* benchmark_Wrinkling_DWR_post).  A solution state is named by an         *)
(* integer: 0 is the seed, n > 0 the solution of the n-th step() call,     *)
(* Diverged what a failed corrector may leave behind.                      *)
(*   driver         : the program that runs                                *)
(*   adaptiveMesh, bandwidthIsOne : its command-line inputs                *)
(*   pc             : the position in main                                 *)
(*   k, it          : load-step index and adaptivity iteration             *)
(*   dLb, dL        : the step lengths                                     *)
(*   Uold, Lold, U, L, U_patch, Uold_patch : as in the source              *)
(*   arcLength      : the arc-length object: its solution, length and      *)
(*                    convergence flag                                     *)
(*   bandtest, refined, coarsened, unstable_prev : as in the source        *)
(*   attempt, prev  : the last two step() calls: their number, starting    *)
(*                    state, length, load step, outcome, the accessors     *)
(*                    read and the outputs recorded on their account       *)
(*   dLArg          : the step length given on the command line (-l)       *)
(*   unstable, indicator, indicator_prev, deltaL, deltaLold, deltaU_patch, *)
(*   deltaUold_patch : as in the source; an increment is the pair of the   *)
(*                    two states it is the difference of                   *)
(*   solutionFile   : the record kept in solutionFile.xml                  *)
(*   stab           : the computeStability calls made so far: the sign of  *)
(*                    the indicator found, what stabilityChange() said and *)
(*                    the solution it was evaluated at                     *)
(*   calls          : the calls the last pass made on the arc-length       *)
(*                    object and on the solution file, in order            *)
(*   branch         : how often computeSingularPoint and switchBranch ran, *)
(*                    whether the singular point was located and the       *)
(*                    state (Ulast, Llast) computeSingularPoint was given  *)
(***************************************************************************)
VARIABLES driver, adaptiveMesh, bandwidthIsOne, pc, k, it, dLb, dL,
          Uold, Lold, U, L, U_patch, Uold_patch, arcLength,
          bandtest, refined, coarsened, unstable_prev, attempt, prev,
          dLArg, unstable, indicator, indicator_prev, deltaL, deltaLold,
          deltaU_patch, deltaUold_patch, solutionFile, stab, calls, branch

(* the variables of the stability check, the increments and the restart *)
contVars == <<unstable, indicator, indicator_prev, deltaL, deltaLold,
              deltaU_patch, deltaUold_patch, solutionFile, stab, branch>>

driverVars == <<driver, adaptiveMesh, bandwidthIsOne, pc, k, it, dLb, dL,
                Uold, Lold, U, L, U_patch, Uold_patch, arcLength,
                bandtest, refined, coarsened, unstable_prev, attempt, prev,
                dLArg, calls, contVars>>

(***************************************************************************)
(* The Jacobian and ALResidual closures of the drivers and what they       *)
(* capture by reference.                                                   *)
(*   program   : the driver the closures belong to                         *)
(*   time      : the assembly-time accumulator                             *)
(*   stopwatch : the time the stopwatch measured last                      *)
(*   mp_def    : the deformed geometry of main                             *)
(*   assembler : the matrix and the vector the assembler holds             *)
(*   cb        : the last call of a closure or of step(): its arguments    *)
(*               and what it returned                                      *)
(***************************************************************************)
VARIABLES program, time, stopwatch, mp_def, assembler, cb

closureVars == <<program, time, stopwatch, mp_def, assembler, cb>>

vars == <<solverVars, refVars, driverVars, closureVars>>

(* the number of load steps asked for (option -N) *)
step == MaxSteps

Diverged == -1

(* the solution located by computeSingularPoint and perturbed by switchBranch *)
SingularPoint == MaxAttempts + 1

NoAttempt ==
    [n |-> 0, converged |-> TRUE, length |-> NotFinite, fromU |-> 0, fromL |-> 0,
     k |-> 0, UoldBefore |-> 0, LoldBefore |-> 0, reads |-> {}, outputs |-> 0]

(* the values a stability indicator is found to have: below and above zero *)
Indicators == {-1, 1}

(* an increment: the difference of the states a and b *)
Difference(a, b) == <<a, b>>

(* gsALMBase: constructor, applyOptions, initialize *)
ALMNew(length) ==
    [U |-> 0, L |-> 0, length |-> length, converged |-> FALSE,
     DU |-> Difference(0, 0), DL |-> Difference(0, 0),
     indicator |-> 0, stability |-> 0, change |-> FALSE]

ALMSetLength(al, length) == [al EXCEPT !.length = length]

ALMSetSolution(al, u, l) == [al EXCEPT !.U = u, !.L = l]

ALMSetSolutionStep(al, du, dl) == [al EXCEPT !.DU = du, !.DL = dl]

ALMSetIndicator(al, value) == [al EXCEPT !.indicator = value, !.stability = Sign(value)]

(* step(): on convergence the object holds the new solution, its          *)
(* increments and the indicator ind found there; otherwise it holds its    *)
(* starting state or the iterate the corrector stopped at                  *)
ALMStep(al, id, conv, junk, ind) ==
    IF conv THEN [al EXCEPT !.U = id, !.L = id, !.converged = TRUE,
                            !.DU = Difference(id, al.U), !.DL = Difference(id, al.L),
                            !.indicator = ind]
    ELSE [al EXCEPT !.U = IF junk THEN Diverged ELSE @,
                    !.L = IF junk THEN Diverged ELSE @,
                    !.converged = FALSE]

(* computeStability(U, quasiNewton), the indicator at U being value: its   *)
(* sign is compared with the sign of the previous evaluation               *)
ALMComputeStability(al, value) ==
    [al EXCEPT !.indicator = value, !.stability = Sign(value),
               !.change = (al.stability * Sign(value) < 0)]

ALMStabilityChange(al) == al.change

(* switchBranch *)
ALMSwitchBranch(al) == [al EXCEPT !.U = SingularPoint, !.L = SingularPoint]

(* the record of a step() call made on al, numbered n *)
Attempt(al, n, conv) ==
    [n |-> n, converged |-> conv, length |-> al.length, fromU |-> al.U, fromL |-> al.L,
     k |-> k, UoldBefore |-> Uold, LoldBefore |-> Lold, reads |-> {}, outputs |-> 0]

(* faulty variant: the retry divides the length by four *)
Quarter(length) == RDiv(length, RInt(4))

Half(length) == RDiv(length, RInt(2))

(* what converged() may say after a step(): anything, unless the step is   *)
(* known to converge                                                       *)
StepOutcomes(sure) == IF sure THEN {TRUE} ELSE BOOLEAN

(* the step length at and below which step() is taken to converge *)
Threshold == Rat(1, 2)

ConvergesFor(length) == RLeq(length, Threshold)

(* ---- benchmark_Balloon ---- *)

(* faulty variant: the failed step is taken as the solution *)
BalloonFailedIgnored(al, rec) ==
    /\ Uold' = al.U
    /\ Lold' = al.L
    /\ k' = k + 1
    /\ pc' = IF k + 1 < step THEN "loop" ELSE "done"
    /\ attempt' = [rec EXCEPT !.reads = {"solutionU", "solutionL"}, !.outputs = 1]
    /\ UNCHANGED <<U, L, U_patch, Uold_patch, dLb, dL, it,
                   bandtest, refined, coarsened, unstable_prev>>

(* GISMO_ERROR("Loop terminated, arc length method did not converge.") *)
BalloonFailed(al, rec) ==
    /\ pc' = "error"
    /\ attempt' = rec
    /\ UNCHANGED <<Uold, Lold, k, U, L, U_patch, Uold_patch, dLb, dL, it,
                   bandtest, refined, coarsened, unstable_prev>>

BalloonConverged(al, rec) ==
    /\ Uold' = al.U
    /\ Lold' = al.L
    /\ k' = k + 1
    /\ pc' = IF k + 1 < step THEN "loop" ELSE "done"
    /\ attempt' = [rec EXCEPT !.reads = {"solutionU", "solutionL"}, !.outputs = 1]
    /\ UNCHANGED <<U, L, U_patch, Uold_patch, dLb, dL, it,
                   bandtest, refined, coarsened, unstable_prev>>

(* one pass of the load-step loop *)
BalloonStep ==
    /\ driver = "Balloon"
    /\ pc = "loop"
    /\ k < step
    /\ attempt.n < MaxAttempts
    /\ \E conv, junk \in BOOLEAN : \E value \in Indicators :
         LET al  == ALMStep(arcLength, attempt.n + 1, conv, junk, value)
             rec == Attempt(arcLength, attempt.n + 1, conv)
         IN  /\ arcLength' = al
             /\ prev' = attempt
             /\ IF ~al.converged THEN BalloonFailed(al, rec) ELSE BalloonConverged(al, rec)
             /\ calls' = IF ~al.converged THEN <<"step", "converged">>
                         ELSE <<"step", "converged", "solutionU", "solutionL">>
    /\ UNCHANGED <<driver, adaptiveMesh, bandwidthIsOne, dLArg, contVars>>

(* ---- benchmark_Wrinkling_DWR: pre-buckling ---- *)

(* faulty variant: the retry keeps the step length *)
PreFailedSameLength(al, rec) ==
    /\ arcLength' = ALMSetSolution(ALMSetLength(al, dLb), Uold, Lold)
    /\ attempt' = rec
    /\ pc' = "pre"
    /\ UNCHANGED <<dLb, k, Uold, Lold, U, L, U_patch, Uold_patch, dL, it,
                   bandtest, refined, coarsened, unstable_prev>>

(* the branch taken when converged() is false; k -= 1 and the loop's k++ *)
PreFailed(al, rec) ==
    /\ dLb' = Half(dLb)
    /\ arcLength' = ALMSetSolution(ALMSetLength(al, Half(dLb)), Uold, Lold)
    /\ attempt' = rec
    /\ pc' = "pre"
    /\ UNCHANGED <<k, Uold, Lold, U, L, U_patch, Uold_patch, dL, it,
                   bandtest, refined, coarsened, unstable_prev>>

(* faulty variant: the unstable solution is stored before the break *)
PreUnstableStored(al, rec) ==
    /\ arcLength' = al
    /\ attempt' = [rec EXCEPT !.reads = {"indicator", "solutionU"}]
    /\ pc' = "buckling"
    /\ Uold' = al.U
    /\ Lold' = al.L
    /\ UNCHANGED <<dLb, k, U, L, U_patch, Uold_patch, dL, it,
                   bandtest, refined, coarsened, unstable_prev>>

(* stabilityChange() is true: break *)
PreUnstable(al, rec) ==
    /\ arcLength' = al
    /\ attempt' = [rec EXCEPT !.reads = {"indicator", "solutionU"}]
    /\ pc' = "buckling"
    /\ UNCHANGED <<dLb, k, Uold, Lold, U, L, U_patch, Uold_patch, dL, it,
                   bandtest, refined, coarsened, unstable_prev>>

(* faulty variant: the pre-buckling loop is left after any accepted step *)
PreAcceptedLeaves(al, rec) ==
    /\ arcLength' = al
    /\ L' = al.L
    /\ Lold' = al.L
    /\ U' = al.U
    /\ Uold' = al.U
    /\ U_patch' = al.U
    /\ Uold_patch' = al.U
    /\ attempt' = [rec EXCEPT !.reads = {"indicator", "solutionU", "solutionL",
                                          "solutionDU", "solutionDL"},
                              !.outputs = 1]
    /\ k' = k + 1
    /\ pc' = "buckling"
    /\ UNCHANGED <<dLb, dL, it, bandtest, refined, coarsened, unstable_prev>>

(* the rest of the loop body after a converged step without stability      *)
(* change, and the loop's k++                                              *)
PreAccepted(al, rec) ==
    /\ arcLength' = al
    /\ L' = al.L
    /\ Lold' = al.L
    /\ U' = al.U
    /\ Uold' = al.U
    /\ U_patch' = al.U
    /\ Uold_patch' = al.U
    /\ attempt' = [rec EXCEPT !.reads = {"indicator", "solutionU", "solutionL",
                                          "solutionDU", "solutionDL"},
                              !.outputs = 1]
    /\ k' = k + 1
    /\ pc' = IF k + 1 < step THEN "pre" ELSE "buckling"
    /\ UNCHANGED <<dLb, dL, it, bandtest, refined, coarsened, unstable_prev>>

(* faulty variant: the stability of the new solution is not evaluated *)
ComputeStabilitySkipped(al, value) == al

(* arcLength.computeStability(arcLength.solutionU(),quasiNewton) *)
ComputeStabilityAt(al, value) == ALMComputeStability(al, value)

(* one pass of the pre-buckling loop; value is the indicator at the        *)
(* solution the step arrives at.  cap bounds the number of step() calls of *)
(* a run; sure says that this step() cannot fail                           *)
PreStepOn(cap, sure) ==
    /\ driver = "Wrinkling"
    /\ pc = "pre"
    /\ k < step
    /\ attempt.n < cap
    /\ \E conv \in StepOutcomes(sure) : \E junk \in BOOLEAN : \E value \in Indicators :
         LET al0 == ALMSetLength(arcLength, dLb)
             al1 == ALMStep(al0, attempt.n + 1, conv, junk, value)
             al  == ComputeStabilityAt(al1, value)
             rec == Attempt(al0, attempt.n + 1, conv)
         IN  /\ prev' = attempt
             /\ IF ~al1.converged
                THEN /\ PreFailed(al1, rec)
                     /\ calls' = <<"setLength", "step", "converged", "setLength",
                                   "setSolution">>
                     /\ UNCHANGED <<unstable, indicator, indicator_prev, deltaL, deltaLold,
                                    deltaU_patch, deltaUold_patch, stab>>
                ELSE /\ indicator' = al1.indicator
                     /\ unstable' = ALMStabilityChange(al)
                     /\ stab' = Append(stab, [sign |-> Sign(value),
                                              change |-> ALMStabilityChange(al),
                                              U |-> al.U, L |-> al.L])
                     /\ IF ALMStabilityChange(al)
                        THEN /\ PreUnstable(al, rec)
                             /\ calls' = <<"setLength", "step", "converged", "indicator",
                                           "solutionU", "computeStability",
                                           "stabilityChange">>
                             /\ UNCHANGED <<indicator_prev, deltaL, deltaLold,
                                            deltaU_patch, deltaUold_patch>>
                        ELSE /\ PreAccepted(al, rec)
                             /\ calls' = <<"setLength", "step", "converged", "indicator",
                                           "solutionU", "computeStability",
                                           "stabilityChange", "solutionL", "solutionDL",
                                           "solutionU", "solutionDU">>
                             /\ deltaL' = al.DL
                             /\ deltaLold' = al.DL
                             /\ deltaU_patch' = Difference(al.U, 0)
                             /\ deltaUold_patch' = Difference(al.U, 0)
                             /\ indicator_prev' = al1.indicator
    /\ UNCHANGED <<driver, adaptiveMesh, bandwidthIsOne, dLArg, solutionFile, branch>>

PreStep == PreStepOn(MaxAttempts, FALSE)

(* ---- benchmark_Wrinkling_DWR: the bifurcation ---- *)

(* faulty variant: the block runs whether or not a bifurcation was spotted *)
SpottedAlways == TRUE

(* if (unstable) *)
SpottedBifurcation == unstable

(* the block is skipped *)
BucklingSkipped ==
    /\ calls' = <<>>
    /\ pc' = IF k < step THEN "post" ELSE "done"
    /\ UNCHANGED <<dLb, L, Lold, U, Uold, U_patch, Uold_patch, arcLength,
                   unstable_prev, contVars>>

(* computeSingularPoint leaves by an exception that main does not catch *)
BucklingAborted ==
    /\ calls' = <<"computeSingularPoint">>
    /\ branch' = [branch EXCEPT !.singular = @ + 1, !.located = FALSE,
                                !.Ulast = Uold, !.Llast = Lold]
    /\ pc' = "error"
    /\ UNCHANGED <<dLb, L, Lold, U, Uold, U_patch, Uold_patch, arcLength, unstable_prev,
                   unstable, indicator, indicator_prev, deltaL, deltaLold,
                   deltaU_patch, deltaUold_patch, solutionFile, stab>>

(* computeSingularPoint returns, with the singular point located or not;   *)
(* switchBranch follows                                                    *)
BucklingBlock(located) ==
    /\ LET al == ALMSetLength(ALMSwitchBranch(arcLength), dL)
       IN  /\ arcLength' = al
           /\ dLb' = dL
           /\ L' = al.L
           /\ Lold' = al.L
           /\ U' = al.U
           /\ Uold' = al.U
           /\ U_patch' = al.U
           /\ Uold_patch' = al.U
           /\ deltaL' = al.DL
           /\ deltaLold' = al.DL
           /\ deltaU_patch' = Difference(al.U, 0)
           /\ deltaUold_patch' = Difference(al.U, 0)
    /\ calls' = <<"computeSingularPoint", "switchBranch", "setLength", "solutionL",
                  "solutionDL", "solutionU", "solutionDU">>
    /\ branch' = [branch EXCEPT !.singular = @ + 1, !.switched = @ + 1,
                                !.located = located,
                                !.Ulast = Uold, !.Llast = Lold]
    /\ indicator' = 0
    /\ unstable' = FALSE
    /\ unstable_prev' = TRUE
    /\ pc' = IF k < step THEN "post" ELSE "done"
    /\ UNCHANGED <<indicator_prev, solutionFile, stab>>

(* the code between the two loops; a computeSingularPoint that does not    *)
(* locate the point reports it by an exception or by its state             *)
Buckling ==
    /\ driver = "Wrinkling"
    /\ pc = "buckling"
    /\ IF ~SpottedBifurcation THEN BucklingSkipped
       ELSE \E located, thrown \in BOOLEAN :
              IF ~located /\ thrown THEN BucklingAborted ELSE BucklingBlock(located)
    /\ UNCHANGED <<driver, adaptiveMesh, bandwidthIsOne, k, it, dL, dLArg,
                   bandtest, refined, coarsened, attempt, prev>>

(* ---- post-buckling, in both wrinkling drivers ---- *)
maxIt == 10

(* the step length the post-buckling loop works with *)
PostLength == IF driver = "WrinklingPost" THEN dL ELSE dLb

(* bandtest: whether the error lies outside the band *)
Bandtest(error) ==
    IF bandwidthIsOne THEN error = "above" ELSE error \in {"below", "at", "above"}

(* the head of a load step: it = 0, refined = coarsened = true, error = 1 *)
PostBegin ==
    /\ driver \in {"Wrinkling", "WrinklingPost"}
    /\ pc = "post"
    /\ k < step
    /\ it' = 0
    /\ refined' = TRUE
    /\ coarsened' = TRUE
    /\ \E error \in {"below", "inside", "at", "above"} :
         /\ bandwidthIsOne => error # "inside"
         /\ bandtest' = Bandtest(error)
    /\ pc' = "while"
    /\ calls' = <<>>
    /\ UNCHANGED <<driver, adaptiveMesh, bandwidthIsOne, k, dLb, dL, Uold, Lold, U, L,
                   U_patch, Uold_patch, arcLength, unstable_prev, attempt, prev,
                   dLArg, contVars>>

WhileCondition == bandtest /\ it < maxIt /\ (refined \/ coarsened)

(* faulty variant: the retry keeps the step length *)
PostFailedSameLength(al, rec) ==
    /\ dL' = dL /\ dLb' = dLb
    /\ arcLength' = ALMSetSolution(ALMSetLength(al, PostLength), Uold', Lold)
    /\ attempt' = rec
    /\ it' = it - 1
    /\ pc' = "while"
    /\ UNCHANGED <<k, Lold, U, L, U_patch, Uold_patch,
                   bandtest, refined, coarsened, unstable_prev>>

(* the branch taken when converged() is false; it -= 1; continue *)
PostFailed(al, rec) ==
    /\ IF driver = "WrinklingPost"
       THEN dL' = Half(dL) /\ dLb' = dLb
       ELSE dLb' = Half(dLb) /\ dL' = dL
    /\ arcLength' = ALMSetSolution(ALMSetLength(al, Half(PostLength)), Uold', Lold)
    /\ attempt' = rec
    /\ it' = it - 1
    /\ pc' = "while"
    /\ UNCHANGED <<k, Lold, U, L, U_patch, Uold_patch,
                   bandtest, refined, coarsened, unstable_prev>>

(* the converged attempt: error estimation, then marking and remeshing *)
PostConverged(al, rec) ==
    /\ arcLength' = al
    /\ L' = al.L
    /\ U' = al.U
    /\ U_patch' = al.U
    /\ attempt' = [rec EXCEPT !.reads = {"indicator", "solutionU", "solutionL",
                                          "solutionDU", "solutionDL"}]
    /\ IF ~adaptiveMesh
       THEN /\ pc' = "finish"
            /\ UNCHANGED <<it, bandtest, refined, coarsened, unstable_prev>>
       ELSE IF unstable_prev /\ driver = "Wrinkling"
       THEN /\ unstable_prev' = FALSE
            /\ pc' = "finish"
            /\ UNCHANGED <<it, bandtest, refined, coarsened>>
       ELSE /\ \E error \in {"below", "inside", "at", "above"} : \E marked \in BOOLEAN :
                 /\ bandwidthIsOne => error # "inside"
                 /\ refined' = IF error = "above" THEN marked ELSE refined
                 /\ coarsened' = IF error = "below" THEN marked ELSE coarsened
                 /\ bandtest' = Bandtest(error)
            /\ unstable_prev' = FALSE
            /\ it' = it + 1
            /\ pc' = "while"
    /\ UNCHANGED <<dLb, dL, k, Lold, Uold_patch>>

(* one pass of the adaptivity loop *)
PostAttemptOn(cap, sure) ==
    /\ driver \in {"Wrinkling", "WrinklingPost"}
    /\ pc = "while"
    /\ WhileCondition
    /\ attempt.n < cap
    /\ Uold' = Uold_patch
    /\ \E conv \in StepOutcomes(sure) : \E junk \in BOOLEAN : \E value \in Indicators :
         LET al0 == ALMSetLength(
                        ALMSetSolutionStep(
                            ALMSetSolution(ALMSetIndicator(ALMNew(PostLength), indicator),
                                           Uold_patch, Lold),
                            deltaUold_patch, deltaLold),
                        PostLength)
             al  == ALMStep(al0, attempt.n + 1, conv, junk, value)
             rec == [Attempt(al0, attempt.n + 1, conv) EXCEPT !.UoldBefore = Uold_patch]
         IN  /\ prev' = attempt
             /\ IF ~al.converged
                THEN /\ PostFailed(al, rec)
                     /\ calls' = <<"applyOptions", "initialize", "setIndicator",
                                   "setSolution", "setSolutionStep", "setLength", "step",
                                   "converged", "setLength", "setSolution">>
                     /\ UNCHANGED <<indicator, deltaL, deltaU_patch>>
                ELSE /\ PostConverged(al, rec)
                     /\ calls' = <<"applyOptions", "initialize", "setIndicator",
                                   "setSolution", "setSolutionStep", "setLength", "step",
                                   "converged", "indicator", "solutionL", "solutionDL",
                                   "solutionU", "solutionDU">>
                     /\ indicator' = al.indicator
                     /\ deltaL' = al.DL
                     /\ deltaU_patch' = Difference(al.U, 0)
    /\ UNCHANGED <<driver, adaptiveMesh, bandwidthIsOne, dLArg, unstable, indicator_prev,
                   deltaLold, deltaUold_patch, solutionFile, stab, branch>>

PostAttempt == PostAttemptOn(MaxAttempts, FALSE)

(* faulty variant: the file is written with the index before k++ *)
PostFinishStaleIndex ==
    /\ driver \in {"Wrinkling", "WrinklingPost"}
    /\ pc = "finish" \/ (pc = "while" /\ ~WhileCondition)
    /\ Uold_patch' = U_patch
    /\ Lold' = L
    /\ attempt' = [attempt EXCEPT !.outputs = @ + 1]
    /\ k' = k + 1
    /\ \E inRange \in BOOLEAN :
         /\ driver = "Wrinkling" => inRange
         /\ pc' = IF k + 1 < step /\ inRange THEN "post" ELSE "done"
    /\ deltaU_patch' = IF driver = "WrinklingPost" THEN Difference(U_patch, Uold_patch)
                       ELSE deltaU_patch
    /\ deltaUold_patch' = deltaU_patch'
    /\ deltaLold' = deltaL
    /\ indicator_prev' = indicator
    /\ IF driver = "WrinklingPost"
       THEN /\ solutionFile' = [Uold_patch |-> U_patch, deltaUold_patch |-> deltaU_patch',
                                Lold |-> L, deltaLold |-> deltaL, k |-> k]
            /\ calls' = <<"clear", "add", "add", "add", "add", "save">>
       ELSE /\ solutionFile' = solutionFile
            /\ calls' = <<>>
    /\ UNCHANGED <<driver, adaptiveMesh, bandwidthIsOne, it, dLb, dL, Uold, U, L, U_patch,
                   arcLength, bandtest, refined, coarsened, unstable_prev, prev,
                   dLArg, unstable, indicator, deltaL, stab, branch>>

(* after the adaptivity loop: the load step is accepted and written *)
PostFinish ==
    /\ driver \in {"Wrinkling", "WrinklingPost"}
    /\ pc = "finish" \/ (pc = "while" /\ ~WhileCondition)
    /\ Uold_patch' = U_patch
    /\ Lold' = L
    /\ attempt' = [attempt EXCEPT !.outputs = @ + 1]
    /\ k' = k + 1
    /\ \E inRange \in BOOLEAN :
         /\ driver = "Wrinkling" => inRange
         /\ pc' = IF k + 1 < step /\ inRange THEN "post" ELSE "done"
    /\ deltaU_patch' = IF driver = "WrinklingPost" THEN Difference(U_patch, Uold_patch)
                       ELSE deltaU_patch
    /\ deltaUold_patch' = deltaU_patch'
    /\ deltaLold' = deltaL
    /\ indicator_prev' = indicator
    /\ IF driver = "WrinklingPost"
       THEN /\ solutionFile' = [Uold_patch |-> U_patch, deltaUold_patch |-> deltaU_patch',
                                Lold |-> L, deltaLold |-> deltaL, k |-> k + 1]
            /\ calls' = <<"clear", "add", "add", "add", "add", "save">>
       ELSE /\ solutionFile' = solutionFile
            /\ calls' = <<>>
    /\ UNCHANGED <<driver, adaptiveMesh, bandwidthIsOne, it, dLb, dL, Uold, U, L, U_patch,
                   arcLength, bandtest, refined, coarsened, unstable_prev, prev,
                   dLArg, unstable, indicator, deltaL, stab, branch>>

(* ---- benchmark_Wrinkling_DWR_post: stopped and started again ---- *)

(* the record the file holds before the first load step *)
NoSolution ==
    [Uold_patch |-> 0, deltaUold_patch |-> Difference(0, 0), Lold |-> 0,
     deltaLold |-> Difference(0, 0), k |-> 0]

(* the program is stopped between two load steps and main runs again: its  *)
(* variables start from their initializers and the solution file is read   *)
Restart ==
    /\ driver = "WrinklingPost"
    /\ pc = "post"
    /\ k > 0
    /\ dL' = dLArg
    /\ dLb' = RInt(1)
    /\ it' = 0
    /\ Uold' = 0 /\ U' = 0 /\ L' = 0 /\ U_patch' = 0
    /\ deltaL' = Difference(0, 0)
    /\ deltaU_patch' = Difference(0, 0)
    /\ indicator' = 0
    /\ indicator_prev' = 0
    /\ unstable' = FALSE
    /\ unstable_prev' = FALSE
    /\ bandtest' = FALSE /\ refined' = FALSE /\ coarsened' = FALSE
    /\ arcLength' = ALMNew(RInt(1))
    /\ Uold_patch' = solutionFile.Uold_patch
    /\ deltaUold_patch' = solutionFile.deltaUold_patch
    /\ Lold' = solutionFile.Lold
    /\ deltaLold' = solutionFile.deltaLold
    /\ k' = solutionFile.k
    /\ pc' = "post"
    /\ calls' = <<"applyOptions", "initialize", "getId", "getId", "getId", "getId">>
    /\ UNCHANGED <<driver, adaptiveMesh, bandwidthIsOne, dLArg, solutionFile, stab, branch,
                   attempt, prev>>

(* the state of main before its first loop, by driver and inputs *)
DriverStart(d, length) ==
    /\ driver = d
    /\ adaptiveMesh \in BOOLEAN
    /\ bandwidthIsOne \in BOOLEAN
    /\ pc = CASE d = "Balloon" -> "loop"
              [] d = "Wrinkling" -> "pre"
              [] OTHER -> "post"
    /\ k = 0
    /\ it = 0
    /\ dLb = RInt(1)
    /\ dL = length
    /\ Uold = 0 /\ Lold = 0 /\ U = 0 /\ L = 0 /\ U_patch = 0 /\ Uold_patch = 0
    /\ arcLength = ALMNew(RInt(1))
    /\ bandtest = FALSE /\ refined = FALSE /\ coarsened = FALSE
    /\ unstable_prev = FALSE
    /\ attempt = NoAttempt
    /\ prev = NoAttempt
    /\ dLArg = dL
    /\ unstable = FALSE
    /\ indicator = 0
    /\ indicator_prev = 0
    /\ deltaL = Difference(0, 0)
    /\ deltaLold = Difference(0, 0)
    /\ deltaU_patch = Difference(0, 0)
    /\ deltaUold_patch = Difference(0, 0)
    /\ solutionFile = NoSolution
    /\ stab = <<>>
    /\ calls = <<>>
    /\ branch = [singular |-> 0, switched |-> 0, located |-> FALSE,
                 Ulast |-> 0, Llast |-> 0]

(* no driver runs *)
DriverIdle ==
    /\ driver = "none"
    /\ adaptiveMesh = FALSE
    /\ bandwidthIsOne = FALSE
    /\ pc = "done"
    /\ k = 0
    /\ it = 0
    /\ dLb = RInt(1)
    /\ dL = RInt(1)
    /\ Uold = 0 /\ Lold = 0 /\ U = 0 /\ L = 0 /\ U_patch = 0 /\ Uold_patch = 0
    /\ arcLength = ALMNew(RInt(1))
    /\ bandtest = FALSE /\ refined = FALSE /\ coarsened = FALSE
    /\ unstable_prev = FALSE
    /\ attempt = NoAttempt
    /\ prev = NoAttempt
    /\ dLArg = dL
    /\ unstable = FALSE
    /\ indicator = 0
    /\ indicator_prev = 0
    /\ deltaL = Difference(0, 0)
    /\ deltaLold = Difference(0, 0)
    /\ deltaU_patch = Difference(0, 0)
    /\ deltaUold_patch = Difference(0, 0)
    /\ solutionFile = NoSolution
    /\ stab = <<>>
    /\ calls = <<>>
    /\ branch = [singular |-> 0, switched |-> 0, located |-> FALSE,
                 Ulast |-> 0, Llast |-> 0]

(***************************************************************************)
(* The accessors.  Indices count from 0, as in the source.                 *)
(***************************************************************************)
(* faulty variant: the value is paired with the first column *)
makeModeFirstColumn(j) == << <<m_values[j + 1], m_vectors[1]>> >>

(* gsBucklingSolver::makeMode(int k): one pair (m_values.at(k), m_vectors.col(k)) *)
makeMode(j) == << <<m_values[j + 1], m_vectors[j + 1]>> >>

(* mode(k), for an index of a stored eigenpair *)
Mode(j) ==
    /\ j < Len(m_values)
    /\ j < Len(m_vectors)
    /\ call' = [NoCall EXCEPT !.op = "mode", !.index = j, !.returned = makeMode(j)]
    /\ UNCHANGED <<m_linear, m_nonlinear, m_options, m_values, m_vectors, ndebug>>

(***************************************************************************)
(* Options.                                                                *)
(***************************************************************************)
OptionValues ==
    [solver |-> 0..5, selectionRule |-> {LargestMagn, SmallestMagn},
     sortRule |-> {LargestMagn, SmallestMagn}, ncvFac |-> {2, 3}]

OptionNames == {"solver", "selectionRule", "sortRule", "ncvFac"}

(* options().setInt(name, value) *)
SetInt(name, value) ==
    /\ m_options' = [m_options EXCEPT ![name] = value]
    /\ UNCHANGED <<m_linear, m_nonlinear, m_values, m_vectors, ndebug, call>>

(***************************************************************************)
(* initializeMatrix.                                                       *)
(***************************************************************************)
(* the callbacks m_nonlinearFun is drawn from: K_NL(x) = K_L + diag(g(x_i)) *)
(* with g(x) = fun + (numerator of x)^2, fun = 1 or 2                      *)
NonlinearFun(fun, x) == [i \in 1..Len(x) |-> m_linear[i] + fun + x[i][1] * x[i][1]]

(* m_solver.compute(A) *)
Factorize(A) == A

(* m_solver.solve(b), for the factorized diagonal matrix *)
Solve(factor, b) == [i \in 1..Len(b) |-> RDiv(b[i], RInt(factor[i]))]

(* faulty variant: the load is not scaled *)
ReferenceLoadUnscaled == [i \in 1..Len(m_rhs) |-> RInt(m_rhs[i])]

(* m_scaling*m_rhs *)
ReferenceLoad == [i \in 1..Len(m_rhs) |-> RInt(m_scaling * m_rhs[i])]

(* gsBucklingSolver::initializeMatrix() *)
InitializeMatrix ==
    LET factor == Factorize(m_linear)
        x == Solve(factor, ReferenceLoad)
    IN  /\ m_solver' = factor
        /\ m_solVec' = x
        /\ m_nonlinear' = NonlinearFun(m_nonlinearFun, x)
        /\ call' = [NoCall EXCEPT !.op = "initializeMatrix"]
        /\ UNCHANGED <<m_linear, m_options, m_values, m_vectors, ndebug,
                       m_rhs, m_scaling, m_nonlinearFun>>

(* the members of the reference problem when it plays no part: a unit load *)
RefIdle ==
    /\ m_rhs = [i \in 1..Dim |-> 1]
    /\ m_scaling = 1
    /\ m_nonlinearFun = 1
    /\ m_solver = <<>>
    /\ m_solVec = <<>>

(***************************************************************************)
(* The closures.  A displacement vector, a geometry and a load are         *)
(* integers; the assembler is a function of the geometry it is handed.     *)
(***************************************************************************)
(* the displacement vectors and load factors the closures are called with *)
Displacements == 0..MaxX

LoadFactors == 0..1

Forces == {1, 2}

(* the undeformed geometry mp *)
mp == 1

(* gsMultiPatch<> def: a patch that holds nothing yet *)
EmptyPatch == 0

(* assembleMatrix(def); matrix() *)
Matrix(def) == def * def + 1

(* assembleVector(def); rhs() *)
Rhs(def) == def * def * def

(* faulty variant: the displacement is added to what the patch holds *)
ConstructSolutionAdds(x, def) == def + x

(* assembler->constructSolution(x,def): def becomes the geometry displaced by x *)
ConstructSolution(x, def) == mp + x

(* what the closures have captured *)
Captured ==
    [time |-> time, stopwatch |-> stopwatch, mp_def |-> mp_def, assembler |-> assembler]

(* the captured objects as main constructs them *)
Fresh ==
    [time |-> 0, stopwatch |-> 0, mp_def |-> mp,
     assembler |-> [matrix |-> Matrix(mp), rhs |-> Rhs(mp)]]

(* the patch a closure constructs the solution in: mp_def of main in       *)
(* benchmark_Balloon, a local of the closure in benchmark_Wrinkling_DWR    *)
ScratchPatch(c) == IF program = "Balloon" THEN c.mp_def ELSE EmptyPatch

(* Jacobian(x), called with c captured, the stopwatch measuring elapsed:   *)
(* what it returns and what it leaves captured                             *)
JacobianCall(x, c, elapsed) ==
    LET def == ConstructSolution(x, ScratchPatch(c))
        a   == [c.assembler EXCEPT !.matrix = Matrix(def)]
    IN  [result   |-> a.matrix,
         captured |-> [time |-> c.time + elapsed, stopwatch |-> elapsed,
                       mp_def |-> IF program = "Balloon" THEN def ELSE c.mp_def,
                       assembler |-> a]]

(* ALResidual(x, lam, force) *)
ALResidualCall(x, lam, force, c, elapsed) ==
    LET def    == ConstructSolution(x, ScratchPatch(c))
        a      == [c.assembler EXCEPT !.rhs = Rhs(def)]
        Fint   == -(a.rhs - force)
        result == Fint - lam * force
    IN  [result   |-> result,
         captured |-> [time |-> c.time + elapsed, stopwatch |-> elapsed,
                       mp_def |-> IF program = "Balloon" THEN def ELSE c.mp_def,
                       assembler |-> a]]

(* the states step() can be started from: setSolution, setLength and the   *)
(* load the object was constructed with                                    *)
Injected == [U : Displacements, L : LoadFactors, length : {1}, force : Forces]

(* step() from the injected state: the solution it arrives at is a         *)
(* function of that state and of what the two callbacks return             *)
StepCall(from, c, elapsed) ==
    LET jac == JacobianCall(from.U, c, elapsed)
        res == ALResidualCall(from.U, from.L, from.force, jac.captured, elapsed)
    IN  [result   |-> [from |-> from, jacobian |-> jac.result, residual |-> res.result],
         captured |-> res.captured]

(* the closure or step() has run and left r *)
Returned(fn, args, r) ==
    /\ r.captured.time <= MaxTime
    /\ time' = r.captured.time
    /\ stopwatch' = r.captured.stopwatch
    /\ mp_def' = r.captured.mp_def
    /\ assembler' = r.captured.assembler
    /\ cb' = [fn |-> fn, args |-> args, result |-> r.result]
    /\ UNCHANGED program

Jacobian ==
    \E x \in Displacements : \E elapsed \in 0..1 :
        Returned("Jacobian", [U |-> x, L |-> 0, length |-> 0, force |-> 0],
                 JacobianCall(x, Captured, elapsed))

ALResidual ==
    \E x \in Displacements : \E lam \in LoadFactors : \E force \in Forces :
      \E elapsed \in 0..1 :
        Returned("ALResidual", [U |-> x, L |-> lam, length |-> 0, force |-> force],
                 ALResidualCall(x, lam, force, Captured, elapsed))

Step ==
    \E from \in Injected : \E elapsed \in 0..1 :
        Returned("step", from, StepCall(from, Captured, elapsed))

(* main constructs the deformed geometry of the solution it accepted *)
ConstructDeformed ==
    /\ \E x \in Displacements : mp_def' = ConstructSolution(x, mp_def)
    /\ UNCHANGED <<program, time, stopwatch, assembler, cb>>

NoCallback ==
    [fn |-> "none", args |-> [U |-> 0, L |-> 0, length |-> 0, force |-> 0], result |-> 0]

(* main before the arc-length object is constructed *)
ClosureStart(p) ==
    /\ program = p
    /\ time = Fresh.time
    /\ stopwatch = Fresh.stopwatch
    /\ mp_def = Fresh.mp_def
    /\ assembler = Fresh.assembler
    /\ cb = NoCallback

ClosureIdle == ClosureStart("none")

(***************************************************************************)
(* The solver after construction, on every pair of diagonal matrices whose *)
(* entries are distinct members of PairTypes.                              *)
(***************************************************************************)
SolverInit ==
    /\ \E n \in 1..MaxDim :
         \E t \in {u \in [1..n -> 1..Len(PairTypes)] :
                     \A i, j \in 1..n : i < j => u[i] < u[j]} :
            /\ m_linear = [i \in 1..n |-> PairTypes[t[i]][1]]
            /\ m_nonlinear = [i \in 1..n |-> PairTypes[t[i]][1] + PairTypes[t[i]][2]]
    /\ m_options = defaultOptions
    /\ m_values = <<>>
    /\ m_vectors = <<>>
    /\ ndebug \in BOOLEAN
    /\ call = NoCall
    /\ RefIdle
    /\ DriverIdle
    /\ ClosureIdle

(* the two dense and sparse solves, under every solver mode *)
SolverNext ==
    \/ \E shift \in ShiftVals : Compute(shift) /\ UNCHANGED <<refVars, driverVars, closureVars>>
    \/ \E shift \in ShiftVals : \E number \in 1..MaxNumber :
          ComputeSparse(shift, number) /\ UNCHANGED <<refVars, driverVars, closureVars>>
    \/ \E value \in OptionValues["solver"] : SetInt("solver", value) /\ UNCHANGED <<refVars, driverVars, closureVars>>

SolverSpec == SolverInit /\ [][SolverNext]_vars

(* computePower on every pair of matrices of the family *)
PowerNext == ComputePower /\ UNCHANGED <<refVars, driverVars, closureVars>>

PowerSpec == SolverInit /\ [][PowerNext]_vars

(* every option of the list, on the systems with two degrees of freedom *)
OptionInit == SolverInit /\ Dim = 2

OptionNext ==
    \/ \E name \in OptionNames : \E value \in OptionValues[name] :
          SetInt(name, value) /\ UNCHANGED <<refVars, driverVars, closureVars>>
    \/ \E shift \in ShiftVals : \E number \in 1..MaxNumber :
          ComputeSparse(shift, number) /\ UNCHANGED <<refVars, driverVars, closureVars>>

OptionSpec == OptionInit /\ [][OptionNext]_vars

(* the solver constructed from K_L, a load, a callback and a scaling, on   *)
(* the systems with at most RefDim degrees of freedom                      *)
RefInit ==
    /\ \E n \in 1..RefDim :
         \E t \in {u \in [1..n -> 1..Len(PairTypes)] :
                     \A i, j \in 1..n : i < j => u[i] < u[j]} :
            /\ m_linear = [i \in 1..n |-> PairTypes[t[i]][1]]
            /\ m_nonlinear = [i \in 1..n |-> PairTypes[t[i]][1] + PairTypes[t[i]][2]]
            /\ m_rhs \in [1..n -> {0, 1, 3}]
    /\ m_scaling \in {1, 2}
    /\ m_nonlinearFun \in {1, 2}
    /\ m_solver = <<>>
    /\ m_solVec = <<>>
    /\ m_options = defaultOptions
    /\ m_values = <<>>
    /\ m_vectors = <<>>
    /\ ndebug \in BOOLEAN
    /\ call = NoCall
    /\ DriverIdle
    /\ ClosureIdle

RefNext ==
    \/ InitializeMatrix /\ UNCHANGED <<driverVars, closureVars>>
    \/ \E shift \in ShiftVals : Compute(shift) /\ UNCHANGED <<refVars, driverVars, closureVars>>

RefSpec == RefInit /\ [][RefNext]_vars

(* sequences of compute, computeSparse, computePower and mode calls, under *)
(* every solver mode, on the systems with at most SeqDim degrees of       *)
(* freedom                                                                *)
SeqInit == SolverInit /\ Dim <= SeqDim

SeqNext ==
    \/ \E shift \in ShiftVals : Compute(shift) /\ UNCHANGED <<refVars, driverVars, closureVars>>
    \/ \E shift \in ShiftVals : \E number \in 1..MaxNumber :
          ComputeSparse(shift, number) /\ UNCHANGED <<refVars, driverVars, closureVars>>
    \/ ComputePower /\ UNCHANGED <<refVars, driverVars, closureVars>>
    \/ \E j \in 0..(SeqDim - 1) : Mode(j) /\ UNCHANGED <<refVars, driverVars, closureVars>>
    \/ \E value \in 0..4 : SetInt("solver", value) /\ UNCHANGED <<refVars, driverVars, closureVars>>

SeqSpec == SeqInit /\ [][SeqNext]_vars

(* the three drivers from the start of main, the solver left alone *)
DriverInit ==
    /\ m_linear = <<1>>
    /\ m_nonlinear = <<2>>
    /\ m_options = defaultOptions
    /\ m_values = <<>>
    /\ m_vectors = <<>>
    /\ ndebug = FALSE
    /\ call = NoCall
    /\ RefIdle
    /\ ClosureIdle
    /\ \E d \in {"Balloon", "Wrinkling", "WrinklingPost"} :
         \E length \in {RInt(1), RInt(2)} : DriverStart(d, length)

DriverNext ==
    \/ BalloonStep /\ UNCHANGED <<solverVars, refVars, closureVars>>
    \/ PreStep /\ UNCHANGED <<solverVars, refVars, closureVars>>
    \/ Buckling /\ UNCHANGED <<solverVars, refVars, closureVars>>
    \/ PostBegin /\ UNCHANGED <<solverVars, refVars, closureVars>>
    \/ PostAttempt /\ UNCHANGED <<solverVars, refVars, closureVars>>
    \/ PostFinish /\ UNCHANGED <<solverVars, refVars, closureVars>>
    \/ Restart /\ UNCHANGED <<solverVars, refVars, closureVars>>

DriverSpec == DriverInit /\ [][DriverNext]_vars

(* benchmark_Wrinkling_DWR with a step() that converges whenever the step  *)
(* length is at or below the threshold, run with the default step lengths  *)
(* (dL = dLb), with and without adaptive meshing.  main is a sequential     *)
(* program: it goes on as long as it has a next statement, which is the    *)
(* weak fairness of its steps                                              *)
LivePreStep == PreStepOn(LiveAttempts, ConvergesFor(dLb))

LivePostAttempt == PostAttemptOn(LiveAttempts, ConvergesFor(PostLength))

LiveInit ==
    /\ m_linear = <<1>>
    /\ m_nonlinear = <<2>>
    /\ m_options = defaultOptions
    /\ m_values = <<>>
    /\ m_vectors = <<>>
    /\ ndebug = FALSE
    /\ call = NoCall
    /\ RefIdle
    /\ ClosureIdle
    /\ DriverStart("Wrinkling", RInt(1))

LiveNext ==
    \/ LivePreStep /\ UNCHANGED <<solverVars, refVars, closureVars>>
    \/ Buckling /\ UNCHANGED <<solverVars, refVars, closureVars>>
    \/ PostBegin /\ UNCHANGED <<solverVars, refVars, closureVars>>
    \/ LivePostAttempt /\ UNCHANGED <<solverVars, refVars, closureVars>>
    \/ PostFinish /\ UNCHANGED <<solverVars, refVars, closureVars>>

LiveSpec == LiveInit /\ [][LiveNext]_vars /\ WF_vars(LiveNext)

(* the closures of benchmark_Balloon and benchmark_Wrinkling_DWR, called   *)
(* by step() and on their own, main using mp_def in between                *)
ClosureInit ==
    /\ m_linear = <<1>>
    /\ m_nonlinear = <<2>>
    /\ m_options = defaultOptions
    /\ m_values = <<>>
    /\ m_vectors = <<>>
    /\ ndebug = FALSE
    /\ call = NoCall
    /\ RefIdle
    /\ DriverIdle
    /\ \E p \in {"Balloon", "Wrinkling"} : ClosureStart(p)

ClosureNext ==
    \/ Jacobian /\ UNCHANGED <<solverVars, refVars, driverVars>>
    \/ ALResidual /\ UNCHANGED <<solverVars, refVars, driverVars>>
    \/ Step /\ UNCHANGED <<solverVars, refVars, driverVars>>
    \/ ConstructDeformed /\ UNCHANGED <<solverVars, refVars, driverVars>>

ClosureSpec == ClosureInit /\ [][ClosureNext]_vars

(***************************************************************************)
(* Properties of the eigenvalue solver.                                    *)
(***************************************************************************)
Stored == call.op = "computeSparse" /\ call.mode # "none" /\ call.threw = "no"

(* (K_L - value*(K_NL - K_L)) * vector = 0, for a vector that is not zero *)
Belongs(value, vector) ==
    /\ \E i \in 1..Dim : ~RIsZero(vector[i])
    /\ \A i \in 1..Dim :
         RIsZero(RMul(RSub(RInt(m_linear[i]), RMul(value, RInt(Geometric[i]))), vector[i]))

(* the eigenvalues mu of K_L v = mu (K_NL - K_L) v *)
UnshiftedSpectrum == {Rat(m_linear[i], Geometric[i]) : i \in 1..Dim}

(* C1: after compute(shift) the stored values are the eigenvalues of the   *)
(* unshifted problem K_L v = mu (K_NL - K_L) v, one per degree of freedom  *)
(* and in increasing order, whatever the shift was                         *)
C1_DenseValuesUnshifted ==
    call.op = "compute" =>
        /\ Len(m_values) = Dim
        /\ Range(m_values) = UnshiftedSpectrum
        /\ \A i, j \in 1..Len(m_values) : i < j => RLeq(m_values[i], m_values[j])

C1_Witness ==
    /\ call.op = "compute"
    /\ ~RIsZero(call.shift)
    /\ Dim >= 3
    /\ Len(m_values) = Dim

(* C4: a computeSparse whose solver does not report success raises an      *)
(* error and leaves values() and vectors() as they were before the call    *)
C4_FailureKeepsResults ==
    [][(/\ m_options' = m_options
        /\ call'.op = "computeSparse"
        /\ call'.info \in {"NotConverging", "NumericalIssue"})
          => (/\ call'.threw # "no"
              /\ m_values' = m_values
              /\ m_vectors' = m_vectors)]_vars

StrictlyDominant(D, i) == \A j \in 1..Len(D) : j # i => RLess(RAbs(D[j]), RAbs(D[i]))

DominantByTwo(D, i) ==
    \A j \in 1..Len(D) : j # i => RLeq(RMul(RInt(2), RAbs(D[j])), RAbs(D[i]))

(* the vector is a nonzero multiple of the i-th unit vector *)
IsAxis(vector, i) ==
    /\ ~RIsZero(vector[i])
    /\ \A j \in 1..Len(vector) : j # i => RIsZero(vector[j])

(* equal up to the resolution of the iteration *)
Near(x, y) == RLeq(RAbs(RSub(x, y)), Rat(2, FxScale))

(* up to that resolution, plus or minus the i-th unit vector *)
NearAxis(vector, i) ==
    /\ Near(RAbs(vector[i]), RInt(1))
    /\ \A j \in 1..Len(vector) : j # i => Near(vector[j], RInt(0))

RECURSIVE Iterate(_, _, _)
Iterate(D, v, n) ==
    IF n = 0 THEN v
    ELSE IF n = 1 THEN Normalize(MatVec(D, v))
    ELSE LET half == Iterate(D, v, n \div 2)
         IN  IF Len(half) = Len(v) THEN Iterate(D, half, n - (n \div 2)) ELSE half

(* C6: computePower makes at most kmax products, raises nothing and stores *)
(* one vector and one value; when the tolerance was not met the vector is  *)
(* the normalised iterate after kmax products                              *)
C6_PowerStopsAtCap ==
    call.op = "computePower" =>
        /\ call.iters <= kmax
        /\ call.threw = "no"
        /\ Len(m_vectors) = 1
        /\ Len(m_values) = 1
        /\ ~call.met =>
              /\ call.iters = kmax
              /\ m_vectors[1] =
                   [i \in 1..Dim |->
                      Rat(Iterate(PowerMatrix, [j \in 1..Dim |-> FxScale], kmax)[i], FxScale)]

C6_Witness ==
    /\ call.op = "computePower"
    /\ ~call.met
    /\ call.iters = kmax
    /\ Dim >= 2

ShiftsBack(mode) == mode \in {"Cholesky", "RegularInverse"}

DenseValues(shift) ==
    UNION {Range(DenseShiftBack(r.values, shift)) :
             r \in EigenSolverResults(ShiftedLinear(shift), GeometricMatrix)}

(* C8: in Cholesky mode every value computeSparse(shift, n) stores is one  *)
(* of those of dense compute(shift), all n of them on success, and every   *)
(* stored pair satisfies (K_L - value*(K_NL - K_L)) * vector = 0           *)
C8_SparseWithinDense ==
    (Stored /\ call.mode = "Cholesky") =>
        /\ \A c \in 1..Len(m_values) :
             /\ m_values[c] \in DenseValues(call.shift)
             /\ Belongs(m_values[c], m_vectors[c])
        /\ \A i, j \in 1..Len(m_values) : i # j => m_values[i] # m_values[j]
        /\ call.info = "Successful" => Len(m_values) = call.nev

C8_Witness ==
    /\ Stored
    /\ call.mode = "Cholesky"
    /\ call.info = "Successful"
    /\ call.nev = 2
    /\ Len(m_values) = 2
    /\ ~RIsZero(call.shift)

(* C9: for 1x1 matrices K_L = [[a]], K_NL = [[b]], b > a, compute reports  *)
(* the single eigenvalue a/(b-a); for a = 1, b = 2 it is 1                 *)
C9_SingleDof ==
    (call.op = "compute" /\ Dim = 1 /\ m_nonlinear[1] > m_linear[1]) =>
        /\ m_values = <<Rat(m_linear[1], m_nonlinear[1] - m_linear[1])>>
        /\ (m_linear[1] = 1 /\ m_nonlinear[1] = 2) => m_values = <<RInt(1)>>

C9_Witness ==
    /\ call.op = "compute"
    /\ m_linear = <<1>>
    /\ m_nonlinear = <<2>>
    /\ ~RIsZero(call.shift)
    /\ m_values = <<RInt(1)>>

(* C10: the subspace size computeSparse hands to the solver is the value   *)
(* of option ncvFac times the number of eigenvalues requested              *)
C10_NcvFromOption ==
    [][(/\ m_options' = m_options
        /\ call'.op = "computeSparse"
        /\ call'.mode # "none")
          => call'.ncv = m_options.ncvFac * call'.nev]_vars

(***************************************************************************)
(* Properties of the drivers.                                              *)
(***************************************************************************)
Failed(rec) == rec.n > 0 /\ ~rec.converged

(* the loop the failed attempt was made in runs another pass for the same k *)
RetryPending ==
    /\ k = attempt.k
    /\ \/ pc = "pre" /\ k < step
       \/ pc = "while" /\ WhileCondition

(* C2: in every driver, after a step() that did not converge no solution   *)
(* accessor is read, Uold and Lold are not overwritten and no output is    *)
(* recorded for the attempt; the Balloon driver stops with an error and    *)
(* the wrinkling drivers go on to a retry                                  *)
C2_FailedStepNeverAccepted ==
    Failed(attempt) =>
        /\ attempt.reads = {}
        /\ attempt.outputs = 0
        /\ Uold = attempt.UoldBefore
        /\ Lold = attempt.LoldBefore
        /\ IF driver = "Balloon" THEN pc = "error" ELSE RetryPending

C2_Witness ==
    /\ driver = "Wrinkling"
    /\ Failed(attempt)
    /\ Failed(prev)
    /\ pc = "while"
    /\ Uold # 0
    /\ arcLength.converged = FALSE

(* C3: in the wrinkling drivers the step() call that follows one that did  *)
(* not converge is made with half its step length, from the stored state   *)
(* (Uold, Lold), which is the one the failed call started from, and for    *)
(* the same load-step index k                                              *)
C3_RetryHalvesFromAccepted ==
    (driver # "Balloon" /\ Failed(prev)) =>
        /\ attempt.n = prev.n + 1
        /\ attempt.length = Half(prev.length)
        /\ attempt.fromU = prev.UoldBefore
        /\ attempt.fromL = prev.LoldBefore
        /\ attempt.UoldBefore = prev.UoldBefore
        /\ attempt.LoldBefore = prev.LoldBefore
        /\ attempt.k = prev.k

C3_Witness ==
    /\ driver = "Wrinkling"
    /\ Failed(prev)
    /\ attempt.n = prev.n + 1
    /\ attempt.converged
    /\ attempt.length = Half(prev.length)
    /\ prev.UoldBefore # 0
    /\ Uold = attempt.n


(* C11: the selection rule and the sort rule computeSparse hands to the    *)
(* solver are the values of options selectionRule and sortRule             *)
C11_RulesFromOptions ==
    [][(/\ m_options' = m_options
        /\ call'.op = "computeSparse"
        /\ call'.mode # "none")
          => (/\ call'.selection = m_options.selectionRule
              /\ call'.sorting = m_options.sortRule)]_vars

(* the mode each value of option solver stands for *)
ModeOfSolver == <<"Cholesky", "RegularInverse", "ShiftInvert", "Buckling", "Cayley">>

C15_InitializeMatrixFrame ==
    [][call'.op = "initializeMatrix" =>
          (/\ m_solver' = m_linear
           /\ Len(m_solVec') = Dim
           /\ \A i \in 1..Dim :
                RMul(RInt(m_linear[i]), m_solVec'[i]) = RInt(m_scaling * m_rhs[i])
           /\ m_nonlinear' = NonlinearFun(m_nonlinearFun, m_solVec')
           /\ m_linear' = m_linear
           /\ m_rhs' = m_rhs
           /\ m_scaling' = m_scaling
           /\ m_nonlinearFun' = m_nonlinearFun
           /\ m_values' = m_values
           /\ m_vectors' = m_vectors)]_vars

C15_Witness ==
    /\ call.op = "initializeMatrix"
    /\ Dim = 2
    /\ m_scaling = 2
    /\ Len(m_values) = 2
    /\ m_solver = m_linear
    /\ \E i \in 1..Dim : ~RIsZero(m_solVec[i])


(* C13: for an index of a stored eigenpair, mode(k) returns exactly one    *)
(* pair, made of value(k) and of column k of vectors(), and leaves the     *)
(* stored eigenpairs as they were                                          *)
C13_ModeIsStoredPair ==
    [][(call'.op = "mode" /\ m_options' = m_options) =>
          (/\ Len(call'.returned) = 1
           /\ call'.returned[1][1] = m_values[call'.index + 1]
           /\ call'.returned[1][2] = m_vectors[call'.index + 1]
           /\ m_values' = m_values
           /\ m_vectors' = m_vectors)]_vars

C13_Witness ==
    /\ call.op = "mode"
    /\ call.index = 1
    /\ Len(m_values) = 2
    /\ m_values[1] # m_values[2]
    /\ call.returned = << <<m_values[2], m_vectors[2]>> >>

(* value = (v . v) / (v . D v), v taken in units of 1/FxScale: the value *)
(* computePower stores with v                                           *)
PowerPair(value, vector) ==
    LET n   == [i \in 1..Dim |-> vector[i][1] * (FxScale \div vector[i][2])]
        vv  == SumSeq([i \in 1..Dim |-> n[i] * n[i]])
        vDv == RSumSeq([i \in 1..Dim |-> RMul(RInt(n[i] * n[i]), PowerMatrix[i])])
    IN  value = RDiv(RInt(vv), vDv)

(* C14: values() and vectors() always hold as many values as columns, and  *)
(* a call either leaves both as they were or replaces both by its own      *)
(* result, every stored value belonging to the column stored with it       *)
C14_WholesaleResults ==
    [][/\ Len(m_values') = Len(m_vectors')
       /\ (m_values' # m_values \/ m_vectors' # m_vectors) =>
             /\ call'.op \in {"compute", "computeSparse", "computePower"}
             /\ call'.threw = "no"
             /\ \A c \in 1..Len(m_values') :
                  IF call'.op = "computePower"
                  THEN PowerPair(m_values'[c], m_vectors'[c])
                  ELSE Belongs(m_values'[c], m_vectors'[c])]_vars

C14_Witness ==
    /\ call.op = "compute"
    /\ Len(m_values) = 2
    /\ Len(m_vectors) = 2
    /\ m_options.solver = 2
    /\ Belongs(m_values[2], m_vectors[2])


(* the pass just made was a fresh start of main from the solution file *)
Resumed == Len(calls') > 0 /\ \E c \in 1..Len(calls') : calls'[c] = "getId"

(* C16: a run of the restart driver that is stopped after a completed load *)
(* step and started again from solutionFile goes on from the state the     *)
(* uninterrupted run would go on from: the next step() is started from the *)
(* same solution, increments, load-step index, step length and indicator   *)
C16_RestartRoundTrip ==
    [][Resumed =>
          /\ Uold_patch' = Uold_patch
          /\ deltaUold_patch' = deltaUold_patch
          /\ Lold' = Lold
          /\ deltaLold' = deltaLold
          /\ k' = k
          /\ dL' = dL
          /\ indicator' = indicator]_vars

(* C17: in the wrinkling driver switchBranch() is called only right after  *)
(* computeSingularPoint(), computeSingularPoint() only as the first call   *)
(* after a converged step whose stabilityChange() was true, and each at    *)
(* most once in a run                                                      *)
C17_ContinuationOrder ==
    [][driver = "Wrinkling" =>
          /\ \A c \in 1..Len(calls') :
                calls'[c] = "switchBranch" =>
                    c > 1 /\ calls'[c - 1] = "computeSingularPoint"
          /\ \A c \in 1..Len(calls') :
                calls'[c] = "computeSingularPoint" =>
                    /\ c = 1
                    /\ attempt.n > 0
                    /\ attempt.converged
                    /\ Len(calls) > 0
                    /\ calls[Len(calls)] = "stabilityChange"
                    /\ Len(stab) > 0
                    /\ stab[Len(stab)].change
          /\ branch'.singular <= 1
          /\ branch'.switched <= 1]_vars

C17_Witness ==
    /\ driver = "Wrinkling"
    /\ branch.singular = 1
    /\ branch.switched = 1
    /\ calls[1] = "computeSingularPoint"
    /\ calls[2] = "switchBranch"
    /\ Len(stab) = 2
    /\ stab[2].change
    /\ pc = "post"

(* C18: the driver performs switchBranch() only on a singular point that   *)
(* computeSingularPoint() located                                          *)
C18_SwitchOnlyOnLocated == branch.switched > 0 => branch.located

(* C19: stabilityChange() is true after a computeStability() exactly when  *)
(* the indicator found has the opposite sign of the one found at the       *)
(* converged step before; over converged steps with one change of sign it  *)
(* is true once, at the first step after the change                        *)
C19_ChangeAtCrossing ==
    /\ \A c \in 1..Len(stab) :
          stab[c].change <=> (c > 1 /\ stab[c - 1].sign * stab[c].sign < 0)
    /\ Cardinality({c \in 1..Len(stab) : stab[c].change}) <= 1

C19_Witness ==
    /\ Len(stab) = 2
    /\ stab[1].sign = 1
    /\ stab[2].sign = -1
    /\ ~stab[1].change
    /\ stab[2].change
    /\ Failed(prev)
    /\ unstable


(* what the last call would have returned with the captured objects as     *)
(* main constructs them                                                    *)
FreshReturn ==
    CASE cb.fn = "Jacobian" -> JacobianCall(cb.args.U, Fresh, 0).result
      [] cb.fn = "ALResidual" ->
             ALResidualCall(cb.args.U, cb.args.L, cb.args.force, Fresh, 0).result
      [] cb.fn = "step" -> StepCall(cb.args, Fresh, 0).result
      [] OTHER -> cb.result

ShiftedSpectrum(shift) == {RDiv(ShiftedLinear(shift)[i], GeometricMatrix[i]) : i \in 1..Dim}

(* C21: in each of the five modes of computeSparse the stored values are   *)
(* eigenvalues of the unshifted problem K_L v = mu (K_NL - K_L) v: in the  *)
(* Cholesky and RegularInverse modes the solver returns eigenvalues of the *)
(* shifted left-hand side and the shift is added to them, in the           *)
(* ShiftInvert, Buckling and Cayley modes the solver returns eigenvalues   *)
(* of the unshifted problem and nothing is added                           *)
C21_ShiftUndoneOnce ==
    Stored =>
        /\ call.mode \in Range(ModeOfSolver)
        /\ Len(m_values) = Len(call.returned)
        /\ \A c \in 1..Len(m_values) :
             /\ m_values[c] \in UnshiftedSpectrum
             /\ IF ShiftsBack(call.mode)
                THEN /\ call.returned[c] \in ShiftedSpectrum(call.shift)
                     /\ m_values[c] = RAdd(call.returned[c], call.shift)
                ELSE /\ call.returned[c] \in UnshiftedSpectrum
                     /\ m_values[c] = call.returned[c]

C21_Witness ==
    /\ Stored
    /\ call.mode = "Cayley"
    /\ ~RIsZero(call.shift)
    /\ call.info = "Successful"
    /\ Len(m_values) = 2


(* the values of smallest magnitude among those dense compute() reports *)
SmallestDense ==
    {x \in DenseValues(RInt(0)) : \A y \in DenseValues(RInt(0)) : RLeq(RAbs(x), RAbs(y))}

(* the eigenvalues of D of largest magnitude *)
DominantOfD ==
    {PowerMatrix[i] : i \in {j \in 1..Dim :
                               \A h \in 1..Dim : RLeq(RAbs(PowerMatrix[h]), RAbs(PowerMatrix[j]))}}

(* C22: the one value computePower stores is (v.v)/(v.D v) at the final    *)
(* iterate v; when the stopping test was met it is, up to the resolution   *)
(* of the iteration, the value of smallest magnitude that dense compute()  *)
(* reports for the same matrices, the reciprocal of the dominant           *)
(* eigenvalue of D and not that eigenvalue itself                          *)
C22_PowerValueIsSmallestDense ==
    call.op = "computePower" =>
        /\ Len(m_values) = 1
        /\ Len(m_vectors) = 1
        /\ PowerPair(m_values[1], m_vectors[1])
        /\ call.met =>
              /\ \E x \in SmallestDense : Near(m_values[1], x)
              /\ \E d \in DominantOfD : Near(m_values[1], RDiv(RInt(1), d))
              /\ \A d \in DominantOfD : RAbs(d) # RInt(1) => ~Near(m_values[1], d)

C22_Witness ==
    /\ call.op = "computePower"
    /\ call.met
    /\ Dim >= 2
    /\ \E x \in SmallestDense : Near(m_values[1], x) /\ RAbs(x) # RInt(1)


(* C23: with option solver outside 0..4, computeSparse runs no solver,     *)
(* raises nothing and leaves values() and vectors() as they were           *)
C23_UnknownSolverNoOp ==
    [][(/\ m_options' = m_options
        /\ m_options.solver \notin 0..4
        /\ call'.op = "computeSparse"
        /\ call' # call)
          => (/\ call'.mode = "none"
              /\ call'.info = "none"
              /\ call'.returned = <<>>
              /\ call'.threw = "no"
              /\ m_values' = m_values
              /\ m_vectors' = m_vectors)]_vars

(* a computeSparse without solver after a dense compute: its results stay *)
C23_Witness ==
    /\ call.op = "computeSparse"
    /\ call.mode = "none"
    /\ m_options.solver = 5
    /\ Dim >= 2
    /\ Len(m_values) = Dim
    /\ Len(m_vectors) = Dim


(* the converged step of the post-buckling load step k: the one whose      *)
(* solutionDU() and solutionDL() the driver has read                       *)
PostStepAccepted ==
    /\ driver = "Wrinkling"
    /\ branch.switched > 0
    /\ attempt.converged
    /\ attempt.k = k
    /\ "solutionDU" \in attempt.reads

(* C24: in the wrinkling driver's post-buckling loop the pair kept for the *)
(* next setSolutionStep(deltaUold, deltaLold) when a load step is accepted *)
(* is the increment of that step: its solutionDU() and its solutionDL()    *)
C24_InjectedIsLastIncrement ==
    [][(PostStepAccepted /\ k' = k + 1)
          => (/\ deltaUold_patch' = arcLength.DU
              /\ deltaLold' = arcLength.DL)]_vars


(* C25: within a post-buckling load step the counter it of the adaptivity  *)
(* loop counts the converged solves made so far: it stays between 0 and    *)
(* maxIt, however many attempts did not converge in between                *)
C25_IterationCounterInRange ==
    (driver \in {"Wrinkling", "WrinklingPost"} /\ pc \in {"while", "finish"})
        => (it >= 0 /\ it <= maxIt)


(* the positions in stab of the evaluations that found no stability change *)
StableAt == {i \in 1..Len(stab) : ~stab[i].change}

(* the most recent converged state at which stabilityChange() was false,   *)
(* the zero initial state when there is none                               *)
LastStable ==
    IF StableAt = {} THEN [U |-> 0, L |-> 0]
    ELSE LET i == CHOOSE j \in StableAt : \A h \in StableAt : h <= j
         IN  [U |-> stab[i].U, L |-> stab[i].L]

(* C26: the state the wrinkling driver hands to computeSingularPoint is    *)
(* the most recent converged state at which stabilityChange() was false,   *)
(* or the zero initial state; it is never the unstable state just found    *)
C26_SingularPointFromLastStable ==
    [][(driver = "Wrinkling" /\ branch'.singular = branch.singular + 1)
          => (/\ branch'.Ulast = LastStable.U
              /\ branch'.Llast = LastStable.L
              /\ Uold = LastStable.U
              /\ Lold = LastStable.L
              /\ stab[Len(stab)].change
              /\ branch'.Ulast # stab[Len(stab)].U
              /\ branch'.Llast # stab[Len(stab)].L)]_vars

(* a stable step, a failed attempt and the unstable step, then the call *)
C26_Witness ==
    /\ driver = "Wrinkling"
    /\ branch.singular = 1
    /\ branch.Ulast = 1
    /\ branch.Llast = 1
    /\ Len(stab) = 2
    /\ stab[2].U = 3


(* a step() is made in this step of the driver *)
StepMade == attempt'.n = attempt.n + 1

(* C27: in the wrinkling driver the step length dLb is what every step()   *)
(* is given; it changes only by halving after a step that did not converge *)
(* and by the one reset to dL at the branch switch; in the pre-buckling    *)
(* loop it is the initial length over 2^f after f failed attempts, a       *)
(* converged step leaving it as it is                                      *)
C27_LengthOnlyHalved ==
    [][driver = "Wrinkling" =>
          /\ StepMade => attempt'.length = dLb
          /\ (StepMade /\ ~attempt'.converged) =>
                 (dLb' = RDiv(dLb, RInt(2)) /\ arcLength'.length = dLb')
          /\ (StepMade /\ attempt'.converged) => dLb' = dLb
          /\ dLb' # dLb =>
                 \/ StepMade /\ ~attempt'.converged
                 \/ branch'.switched = branch.switched + 1 /\ dLb' = dL
          /\ branch'.switched = branch.switched + 1 =>
                 (dLb' = dL /\ arcLength'.length = dL /\ branch.switched = 0)
          /\ (StepMade /\ pc = "pre") =>
                 attempt'.length = Rat(1, 2 ^ (attempt.n - Len(stab)))]_vars

(* two failed attempts, then a converged pre-buckling step at a quarter *)
C27_Witness ==
    /\ driver = "Wrinkling"
    /\ pc = "pre"
    /\ attempt.n = 3
    /\ attempt.converged
    /\ attempt.length = Rat(1, 4)
    /\ dLb = Rat(1, 4)
    /\ k = 1


(* the body of the post-buckling loop is about to run or running *)
InPostBody == (pc = "post" /\ k < step) \/ pc \in {"while", "finish"}

StabilityChanged == \E i \in 1..Len(stab) : stab[i].change

(* C29: in the wrinkling driver the body of the post-buckling loop runs    *)
(* only after a stability change was found and switchBranch() was called;  *)
(* without a stability change the pre-buckling loop uses up all step load  *)
(* steps and the run ends; k never exceeds step                            *)
C29_PostOnlyAfterSwitch ==
    driver = "Wrinkling" =>
        /\ k <= step
        /\ InPostBody => (branch.switched = 1 /\ StabilityChanged)
        /\ ~StabilityChanged =>
              /\ pc \in {"pre", "buckling", "done"}
              /\ branch.switched = 0
              /\ pc # "pre" => k = step

(* a converged post-buckling step, made after the switch *)
C29_Witness ==
    /\ driver = "Wrinkling"
    /\ pc = "finish"
    /\ branch.switched = 1
    /\ attempt.converged
    /\ attempt.k = k
    /\ "solutionDU" \in attempt.reads


(* C30: in the restart driver the step index in the solution file is the   *)
(* index of the run: what was loaded plus the load steps completed since.  *)
(* Every completed load step raises both by one and ends with the file     *)
(* saved, nothing else writes the file, a restart takes k from the file,   *)
(* and k never exceeds the number of steps asked for                       *)
C30_CheckpointCountsSteps ==
    [][driver = "WrinklingPost" =>
          /\ solutionFile.k = k
          /\ solutionFile'.k = k'
          /\ k' <= step
          /\ k' # k =>
                /\ k' = k + 1
                /\ solutionFile'.k = solutionFile.k + 1
                /\ Len(calls') > 0
                /\ calls'[Len(calls')] = "save"
          /\ solutionFile' # solutionFile => k' = k + 1]_vars

(* two load steps completed and written *)
C30_Witness ==
    /\ driver = "WrinklingPost"
    /\ k = 2
    /\ solutionFile.k = 2
    /\ Len(calls) > 0
    /\ calls[Len(calls)] = "save"


(* the loop a failed step() was made in goes round once more *)
LoopGoesOn == (pc = "pre" /\ k < step) \/ (pc = "while" /\ WhileCondition)

====
